---- MODULE Spec2Model ----
(***************************************************************************)
(* foodgram backend: the relational store (recipes/models.py) and the      *)
(* request handlers that read and write it (api/views.py,                  *)
(* api/serializers.py).  Every table is the sequence of its rows in        *)
(* insertion order; every handler is the sequence of the database          *)
(* statements it issues, one statement per step, so that concurrent        *)
(* requests interleave between statements as they do on a shared store.    *)
(***************************************************************************)
EXTENDS Integers, Sequences, FiniteSets, TLC

VARIABLES
    Recipe,             \* rows [id, author, short_url]           (models.py 53-114)
    Ingredient,         \* rows [id, name, measurement_unit]      (models.py 33-50)
    IngredientInRecipe, \* rows [recipe, ingredient, amount]      (models.py 117-150)
    Favorite,           \* rows [user, recipe]                    (models.py 212-239)
    ShoppingCart,       \* rows [user, recipe]                    (models.py 153-179)
    Follow,             \* rows [user, author]                    (models.py 182-209)
    User,               \* the stored users                       (users/models.py)
    req                 \* req[p]: the request worker p is serving, and where it is

vars == <<Recipe, Ingredient, IngredientInRecipe, Favorite, ShoppingCart,
          Follow, User, req>>

(***************************************************************************)
(* Bounds of the model.                                                    *)
(***************************************************************************)
NumWorkers == 2          \* requests served concurrently
MaxRecipes == 3          \* recipes stored or being created
VaryingChars == 1        \* trailing characters of a random string that vary
MaxIngredients == 2      \* rows the Ingredient table may hold

Workers == 1..NumWorkers
Users == {"u1", "u2"}
Alphabet == {"a", "b"}   \* stands for get_random_string's 62 allowed characters
Amounts == {1, 2}
Names == {"flour", "sugar"}
Units == {"g"}
None == "None"
NoShortUrl == <<>>       \* a short_url that is None or empty

(***************************************************************************)
(* Responses.                                                              *)
(***************************************************************************)
HTTP_200_OK == "200"
HTTP_201_CREATED == "201"
HTTP_204_NO_CONTENT == "204"
HTTP_400_BAD_REQUEST == "400"
HTTP_302_FOUND == "302"
HTTP_403_FORBIDDEN == "403"
HTTP_404_NOT_FOUND == "404"
\* An exception no handler catches (IntegrityError): the request ends as a
\* server fault.
UnhandledIntegrityError == "IntegrityError"

(***************************************************************************)
(* Query helpers (Django ORM).                                             *)
(***************************************************************************)
Range(s) == {s[i] : i \in 1..Len(s)}

\* QuerySet.filter(user=..., recipe=...).exists() on a membership table
Exists(table, user, recipe) ==
    \E i \in 1..Len(table) : table[i].user = user /\ table[i].recipe = recipe

\* number of rows of a membership table for (user, recipe)
CountRows(table, user, recipe) ==
    Cardinality({i \in 1..Len(table) :
                    table[i].user = user /\ table[i].recipe = recipe})

\* get_object_or_404(Recipe, id=pk)
RecipeExists(pk) == \E i \in 1..Len(Recipe) : Recipe[i].id = pk

\* primary keys of the stored recipes
StoredPks == {Recipe[i].id : i \in 1..Len(Recipe)}

\* UniqueConstraint(fields=["user", "recipe"]) of Favorite and ShoppingCart:
\* whether inserting (user, recipe) violates it (NoCheck: a table that
\* declares no such constraint)
UniqueUserRecipeNoCheck(table, user, recipe) == FALSE
UniqueUserRecipeViolated(table, user, recipe) == Exists(table, user, recipe)

\* the ForeignKey columns user and recipe of Favorite and ShoppingCart
\* (models.py 156-167, 215-226): whether inserting (user, recipe) names a
\* user or a recipe that is not stored
ForeignKeyViolated(user, recipe) == user \notin User \/ ~RecipeExists(recipe)

\* QuerySet.delete() of filter(user=..., recipe=...) (KeepAll: a delete that
\* removes nothing)
DeleteKeepAll(table, user, recipe) == table
\* (AnyUser: a delete that selects the rows by the recipe alone)
DeleteRowsAnyUser(table, user, recipe) ==
    SelectSeq(table, LAMBDA row : row.recipe # recipe)
DeleteRows(table, user, recipe) ==
    SelectSeq(table, LAMBDA row : ~(row.user = user /\ row.recipe = recipe))

(***************************************************************************)
(* Requests.                                                               *)
(***************************************************************************)
Idle == [pc |-> "idle", view |-> None, method |-> None, user |-> None,
         pk |-> 0, status |-> None, short_url |-> NoShortUrl,
         ingredients |-> <<>>, body |-> <<>>]

Done(r, status) == [r EXCEPT !.pc = "done", !.status = status]

Begin(view, method, user, pk) ==
    [Idle EXCEPT !.view = view, !.method = method, !.user = user, !.pk = pk]

(***************************************************************************)
(* RecipeViewSet.favorite (views.py 293-317).                              *)
(* First statements: get_object_or_404, then the existence pre-check of    *)
(* the POST branch or of the DELETE branch.                                *)
(***************************************************************************)
\* line 299: Favorite.objects.filter(user=user, recipe=recipe).exists()
\* (skipped: a handler that goes straight to the insert)
favorite_precheck_skipped(user, pk) == FALSE
favorite_precheck(user, pk) == Exists(Favorite, user, pk)

favorite_begin(p, method, user, pk) ==
    /\ req[p].pc = "idle"
    /\ LET r == Begin("favorite", method, user, pk) IN
       req' = [req EXCEPT ![p] =
                IF ~RecipeExists(pk) THEN Done(r, HTTP_404_NOT_FOUND)
                ELSE IF method = "POST"
                     THEN IF favorite_precheck(user, pk)
                          THEN Done(r, HTTP_400_BAD_REQUEST)
                          ELSE [r EXCEPT !.pc = "create"]
                     ELSE IF Exists(Favorite, user, pk)
                          THEN [r EXCEPT !.pc = "delete"]
                          ELSE Done(r, HTTP_400_BAD_REQUEST)]
    /\ UNCHANGED <<Recipe, Ingredient, IngredientInRecipe, Favorite, ShoppingCart, Follow, User>>

\* line 305: Favorite.objects.create(user=user, recipe=recipe); the insert
\* raises IntegrityError when unique_favorite or a foreign key is violated,
\* and nothing in the handler catches it.
favorite_create(p) ==
    /\ req[p].pc = "create" /\ req[p].view = "favorite"
    /\ IF \/ UniqueUserRecipeViolated(Favorite, req[p].user, req[p].pk)
          \/ ForeignKeyViolated(req[p].user, req[p].pk)
       THEN /\ req' = [req EXCEPT ![p] = Done(req[p], UnhandledIntegrityError)]
            /\ UNCHANGED Favorite
       ELSE /\ Favorite' = Append(Favorite,
                                  [user |-> req[p].user, recipe |-> req[p].pk])
            /\ req' = [req EXCEPT ![p] = Done(req[p], HTTP_201_CREATED)]
    /\ UNCHANGED <<Recipe, Ingredient, IngredientInRecipe, ShoppingCart, Follow, User>>

\* lines 312-313: obj.delete(); 204 whatever the number of rows deleted
favorite_delete(p) ==
    /\ req[p].pc = "delete" /\ req[p].view = "favorite"
    /\ Favorite' = DeleteRows(Favorite, req[p].user, req[p].pk)
    /\ req' = [req EXCEPT ![p] = Done(req[p], HTTP_204_NO_CONTENT)]
    /\ UNCHANGED <<Recipe, Ingredient, IngredientInRecipe, ShoppingCart, Follow, User>>

(***************************************************************************)
(* RecipeViewSet.shopping_cart (views.py 326-352): the same three steps on *)
(* the ShoppingCart table.                                                 *)
(***************************************************************************)
shopping_cart_begin(p, method, user, pk) ==
    /\ req[p].pc = "idle"
    /\ LET r == Begin("shopping_cart", method, user, pk) IN
       req' = [req EXCEPT ![p] =
                IF ~RecipeExists(pk) THEN Done(r, HTTP_404_NOT_FOUND)
                ELSE IF method = "POST"
                     THEN IF Exists(ShoppingCart, user, pk)
                          THEN Done(r, HTTP_400_BAD_REQUEST)
                          ELSE [r EXCEPT !.pc = "create"]
                     ELSE IF Exists(ShoppingCart, user, pk)
                          THEN [r EXCEPT !.pc = "delete"]
                          ELSE Done(r, HTTP_400_BAD_REQUEST)]
    /\ UNCHANGED <<Recipe, Ingredient, IngredientInRecipe, Favorite, ShoppingCart, Follow, User>>

shopping_cart_create(p) ==
    /\ req[p].pc = "create" /\ req[p].view = "shopping_cart"
    /\ IF \/ UniqueUserRecipeViolated(ShoppingCart, req[p].user, req[p].pk)
          \/ ForeignKeyViolated(req[p].user, req[p].pk)
       THEN /\ req' = [req EXCEPT ![p] = Done(req[p], UnhandledIntegrityError)]
            /\ UNCHANGED ShoppingCart
       ELSE /\ ShoppingCart' = Append(ShoppingCart,
                                      [user |-> req[p].user, recipe |-> req[p].pk])
            /\ req' = [req EXCEPT ![p] = Done(req[p], HTTP_201_CREATED)]
    /\ UNCHANGED <<Recipe, Ingredient, IngredientInRecipe, Favorite, Follow, User>>

shopping_cart_delete(p) ==
    /\ req[p].pc = "delete" /\ req[p].view = "shopping_cart"
    /\ ShoppingCart' = DeleteRows(ShoppingCart, req[p].user, req[p].pk)
    /\ req' = [req EXCEPT ![p] = Done(req[p], HTTP_204_NO_CONTENT)]
    /\ UNCHANGED <<Recipe, Ingredient, IngredientInRecipe, Favorite, Follow, User>>

\* the response leaves; the worker takes the next request
Respond(p) ==
    /\ req[p].pc = "done"
    /\ req' = [req EXCEPT ![p] = Idle]
    /\ UNCHANGED <<Recipe, Ingredient, IngredientInRecipe, Favorite, ShoppingCart, Follow, User>>

(***************************************************************************)
(* The collection service: concurrent favorite / shopping_cart requests on *)
(* a store that holds one published recipe.  Requests name stored recipes: *)
(* a request for a missing one ends 404 before it reads either table.      *)
(***************************************************************************)
Code(ch) == [i \in 1..6 |-> ch]

InitMembership ==
    /\ Recipe = <<[id |-> 1, author |-> "u1", short_url |-> Code("a")]>>
    /\ Ingredient = <<[id |-> 1, name |-> "flour", measurement_unit |-> "g"]>>
    /\ IngredientInRecipe = <<[recipe |-> 1, ingredient |-> 1, amount |-> 1]>>
    /\ Favorite = <<>>
    /\ ShoppingCart = <<>>
    /\ Follow = <<>>
    /\ User = Users
    /\ req = [p \in Workers |-> Idle]

NextMembership ==
    \E p \in Workers :
        \/ \E method \in {"POST", "DELETE"}, user \in Users, pk \in StoredPks :
              favorite_begin(p, method, user, pk)
        \/ favorite_create(p)
        \/ favorite_delete(p)
        \/ \E method \in {"POST", "DELETE"}, user \in Users, pk \in StoredPks :
              shopping_cart_begin(p, method, user, pk)
        \/ shopping_cart_create(p)
        \/ shopping_cart_delete(p)
        \/ Respond(p)

SpecMembership == InitMembership /\ [][NextMembership]_vars

(***************************************************************************)
(* Short codes (recipes/models.py 90-114).                                 *)
(***************************************************************************)
ShortUrlLength == 6

\* django.utils.crypto.get_random_string(length): the strings it may return.
\* The model draws from the strings whose last VaryingChars characters range
\* over Alphabet and whose other characters are "a".
get_random_string(length) ==
    { [i \in 1..length |->
          IF i <= length - VaryingChars THEN "a"
          ELSE t[i - (length - VaryingChars)]] : t \in [1..VaryingChars -> Alphabet] }

\* line 113: Recipe.objects.filter(short_url=short_url).exists()
ShortUrlExists(short_url) ==
    \E i \in 1..Len(Recipe) : Recipe[i].short_url = short_url

\* line 91: unique=True; whether writing short_url on the row of `pk` (0: a
\* new row) violates it (NoCheck: a column that is not unique)
ShortUrlUniqueNoCheck(short_url, pk) == FALSE
ShortUrlUniqueViolated(short_url, pk) ==
    \E i \in 1..Len(Recipe) :
        Recipe[i].short_url = short_url /\ Recipe[i].id # pk

\* line 105: if not self.short_url (always: a save that allocates every time)
not_short_url_always(short_url) == TRUE
not_short_url(short_url) == short_url = NoShortUrl

\* Recipe.save (lines 103-107) up to its first database statement: to the
\* allocation loop when the instance has no code, else to the row write
SaveEntry(short_url) == IF not_short_url(short_url) THEN "generate" ELSE "save"

RecipeRow(pk) == CHOOSE row \in Range(Recipe) : row.id = pk

NextId(table) ==
    IF table = <<>> THEN 1
    ELSE 1 + (CHOOSE m \in {table[i].id : i \in 1..Len(table)} :
                  \A i \in 1..Len(table) : table[i].id <= m)

\* requests that hold or are about to insert a recipe row
Creating == {p \in Workers : req[p].view = "recipe_create" /\ req[p].pc # "done"}

(***************************************************************************)
(* Validation of the ingredients of a recipe payload.                      *)
(***************************************************************************)
IngredientExists(id) == \E i \in 1..Len(Ingredient) : Ingredient[i].id = id

\* RecipeViewSet.create / partial_update (views.py 222-236, 252-266): the
\* list is not empty and every id names a stored ingredient
view_ingredients_ok(ingredients) ==
    /\ ingredients # <<>>
    /\ \A i \in 1..Len(ingredients) : IngredientExists(ingredients[i].id)

\* CreateIngredientsInRecipeSerializer (serializers.py 171-174) and
\* CreateRecipeSerializer.validate (206-221)
serializer_is_valid(ingredients) ==
    /\ \A i \in 1..Len(ingredients) : ingredients[i].amount >= 1
    /\ ingredients # <<>>
    /\ Len(ingredients) = Cardinality({ingredients[i].id : i \in 1..Len(ingredients)})

(***************************************************************************)
(* POST /recipes/: RecipeViewSet.create (views.py 215-243), then           *)
(* CreateRecipeSerializer.create (serializers.py 254-262), whose           *)
(* Recipe.objects.create runs Recipe.save (models.py 103-114).             *)
(***************************************************************************)
recipe_create_begin(p, user, ingredients) ==
    /\ req[p].pc = "idle"
    /\ Len(Recipe) + Cardinality(Creating) < MaxRecipes
    /\ LET r == [Begin("recipe_create", "POST", user, 0)
                    EXCEPT !.ingredients = ingredients] IN
       req' = [req EXCEPT ![p] =
                IF ~view_ingredients_ok(ingredients) \/ ~serializer_is_valid(ingredients)
                THEN Done([r EXCEPT !.ingredients = <<>>], HTTP_400_BAD_REQUEST)
                ELSE [r EXCEPT !.pc = SaveEntry(NoShortUrl)]]
    /\ UNCHANGED <<Recipe, Ingredient, IngredientInRecipe, Favorite, ShoppingCart, Follow, User>>

\* generate_short_url, line 112: short_url = get_random_string(length=6)
generate_short_url_draw(p) ==
    /\ req[p].pc = "generate"
    /\ \E short_url \in get_random_string(ShortUrlLength) :
          req' = [req EXCEPT ![p].short_url = short_url, ![p].pc = "check"]
    /\ UNCHANGED <<Recipe, Ingredient, IngredientInRecipe, Favorite, ShoppingCart, Follow, User>>

\* generate_short_url, lines 113-114: return the candidate unless a recipe
\* holds it; else go round the `while True` loop again
generate_short_url_check(p) ==
    /\ req[p].pc = "check"
    /\ req' = [req EXCEPT ![p] =
                IF ShortUrlExists(req[p].short_url)
                THEN [req[p] EXCEPT !.short_url = NoShortUrl, !.pc = "generate"]
                ELSE [req[p] EXCEPT !.pc = "save"]]
    /\ UNCHANGED <<Recipe, Ingredient, IngredientInRecipe, Favorite, ShoppingCart, Follow, User>>

\* Recipe.save, line 107: super().save(): INSERT of a new row (pk 0) or
\* UPDATE of the instance's row; the statement raises IntegrityError when the
\* short_url is held by another row, and nothing catches it.
Recipe_save(p) ==
    /\ req[p].pc = "save"
    /\ IF ShortUrlUniqueViolated(req[p].short_url, req[p].pk)
       THEN /\ req' = [req EXCEPT ![p] =
                         Done([req[p] EXCEPT !.ingredients = <<>>,
                                               !.short_url = NoShortUrl],
                              UnhandledIntegrityError)]
            /\ UNCHANGED Recipe
       ELSE IF req[p].pk = 0
       THEN /\ Recipe' = Append(Recipe, [id |-> NextId(Recipe),
                                         author |-> req[p].user,
                                         short_url |-> req[p].short_url])
            /\ req' = [req EXCEPT ![p].pk = NextId(Recipe),
                                  ![p].pc = "ingredients"]
       ELSE /\ Recipe' = [i \in 1..Len(Recipe) |->
                            IF Recipe[i].id = req[p].pk
                            THEN [Recipe[i] EXCEPT !.short_url = req[p].short_url]
                            ELSE Recipe[i]]
            /\ req' = [req EXCEPT ![p] =
                         Done([req[p] EXCEPT !.ingredients = <<>>,
                                             !.short_url = NoShortUrl],
                              HTTP_200_OK)]
    /\ UNCHANGED <<Ingredient, IngredientInRecipe, Favorite, ShoppingCart, Follow, User>>

\* UniqueConstraint(fields=("recipe", "ingredient")) (models.py 142-147) on a
\* bulk_create of `rows` (NoCheck: a table that declares no such constraint)
IngredientInRecipeNoCheck(rows) == FALSE
IngredientInRecipeViolated(rows) ==
    \/ \E i, j \in 1..Len(rows) :
          i # j /\ rows[i].recipe = rows[j].recipe
                /\ rows[i].ingredient = rows[j].ingredient
    \/ \E i \in 1..Len(rows), j \in 1..Len(IngredientInRecipe) :
          /\ rows[i].recipe = IngredientInRecipe[j].recipe
          /\ rows[i].ingredient = IngredientInRecipe[j].ingredient

\* create_ingredients (serializers.py 230-248), then create_tags; bulk_create
\* raises IntegrityError on the unique constraint or when the recipe row is
\* gone (ForeignKey recipe); in create
\* the response follows (201), in update super().update and its save()
create_ingredients(p) ==
    /\ req[p].pc = "ingredients"
    /\ LET elements == req[p].ingredients
           rows == [i \in 1..Len(elements) |->
                       [recipe |-> req[p].pk,
                        ingredient |-> elements[i].id,
                        amount |-> elements[i].amount]]
           cleared == [req[p] EXCEPT !.ingredients = <<>>]
           ended == [cleared EXCEPT !.short_url = NoShortUrl]
       IN IF \E i \in 1..Len(elements) :
                elements[i].amount < 1 \/ ~IngredientExists(elements[i].id)
          THEN /\ req' = [req EXCEPT ![p] = Done(ended, HTTP_400_BAD_REQUEST)]
               /\ UNCHANGED IngredientInRecipe
          ELSE IF IngredientInRecipeViolated(rows) \/ ~RecipeExists(req[p].pk)
          THEN /\ req' = [req EXCEPT ![p] = Done(ended, UnhandledIntegrityError)]
               /\ UNCHANGED IngredientInRecipe
          ELSE /\ IngredientInRecipe' = IngredientInRecipe \o rows
               /\ req' = [req EXCEPT ![p] =
                            IF req[p].view = "recipe_create"
                            THEN Done(ended, HTTP_201_CREATED)
                            ELSE [cleared EXCEPT !.pc = SaveEntry(req[p].short_url)]]
    /\ UNCHANGED <<Recipe, Ingredient, Favorite, ShoppingCart, Follow, User>>

(***************************************************************************)
(* PATCH /recipes/{pk}/: RecipeViewSet.partial_update (views.py 245-273),  *)
(* then CreateRecipeSerializer.update (serializers.py 264-271).            *)
(***************************************************************************)
\* permission_classes = (IsAuthorOrReadOnly,) (views.py 196)
IsAuthorOrReadOnly(method, user, recipe) ==
    method \in {"GET", "HEAD", "OPTIONS"} \/ recipe.author = user

recipe_update_begin(p, user, pk, ingredients) ==
    /\ req[p].pc = "idle"
    /\ LET r == Begin("recipe_update", "PATCH", user, pk) IN
       req' = [req EXCEPT ![p] =
                IF ~view_ingredients_ok(ingredients)
                THEN Done(r, HTTP_400_BAD_REQUEST)
                ELSE IF ~RecipeExists(pk)
                THEN Done(r, HTTP_404_NOT_FOUND)
                ELSE IF ~IsAuthorOrReadOnly("PATCH", user, RecipeRow(pk))
                THEN Done(r, HTTP_403_FORBIDDEN)
                ELSE IF ~serializer_is_valid(ingredients)
                THEN Done(r, HTTP_400_BAD_REQUEST)
                ELSE [r EXCEPT !.pc = "clear",
                               !.short_url = RecipeRow(pk).short_url,
                               !.ingredients = ingredients]]
    /\ UNCHANGED <<Recipe, Ingredient, IngredientInRecipe, Favorite, ShoppingCart, Follow, User>>

\* line 266: IngredientInRecipe.objects.filter(recipe=instance).delete()
recipe_update_clear(p) ==
    /\ req[p].pc = "clear"
    /\ IngredientInRecipe' =
          SelectSeq(IngredientInRecipe, LAMBDA row : row.recipe # req[p].pk)
    /\ req' = [req EXCEPT ![p].pc = "ingredients"]
    /\ UNCHANGED <<Recipe, Ingredient, Favorite, ShoppingCart, Follow, User>>

(***************************************************************************)
(* A later save of a stored recipe as it is (RecipeAdmin, admin.py 14-22): *)
(* the instance is loaded and Recipe.save runs on it.                      *)
(***************************************************************************)
recipe_admin_save(p, pk) ==
    /\ req[p].pc = "idle"
    /\ LET r == Begin("recipe_save", "POST", "admin", pk) IN
       req' = [req EXCEPT ![p] =
                IF ~RecipeExists(pk) THEN Done(r, HTTP_404_NOT_FOUND)
                ELSE [r EXCEPT !.short_url = RecipeRow(pk).short_url,
                               !.pc = SaveEntry(RecipeRow(pk).short_url)]]
    /\ UNCHANGED <<Recipe, Ingredient, IngredientInRecipe, Favorite, ShoppingCart, Follow, User>>

(***************************************************************************)
(* Short links.                                                            *)
(***************************************************************************)
\* RecipeViewSet.get_link (views.py 280-284): the path of the short link
\* (truncated: a link that drops the last character of the code)
short_link_truncated(recipe) ==
    <<"/api/r/", SubSeq(recipe.short_url, 1, ShortUrlLength - 1)>>
short_link(recipe) == <<"/api/r/", recipe.short_url>>

get_link(p, user, pk) ==
    /\ req[p].pc = "idle"
    /\ LET r == Begin("get_link", "GET", user, pk) IN
       req' = [req EXCEPT ![p] =
                IF ~RecipeExists(pk) THEN Done(r, HTTP_404_NOT_FOUND)
                ELSE Done([r EXCEPT !.body = short_link(RecipeRow(pk))],
                          HTTP_200_OK)]
    /\ UNCHANGED <<Recipe, Ingredient, IngredientInRecipe, Favorite, ShoppingCart, Follow, User>>

\* resolve(code): the exact-match lookup behind /api/r/{code}; the id of the
\* recipe that holds the code, or NotFound
NotFound == [found |-> FALSE, recipe_id |-> 0]
resolve(code) ==
    IF \E i \in 1..Len(Recipe) : Recipe[i].short_url = code
    THEN [found |-> TRUE,
          recipe_id |-> (CHOOSE row \in Range(Recipe) : row.short_url = code).id]
    ELSE NotFound

\* GET /api/r/{code}
short_link_redirect(p, link) ==
    /\ req[p].pc = "idle"
    /\ link[1] = "/api/r/"
    /\ LET r == [Begin("short_link_redirect", "GET", None, 0) EXCEPT !.body = link] IN
       req' = [req EXCEPT ![p] =
                IF resolve(link[2]) = NotFound
                THEN Done(r, HTTP_404_NOT_FOUND)
                ELSE Done([r EXCEPT !.pk = resolve(link[2]).recipe_id],
                          HTTP_302_FOUND)]
    /\ UNCHANGED <<Recipe, Ingredient, IngredientInRecipe, Favorite, ShoppingCart, Follow, User>>

(***************************************************************************)
(* The short-code allocator under load: recipes created concurrently by    *)
(* every worker, on a store that holds one ingredient.                     *)
(***************************************************************************)
InitShortUrl ==
    /\ Recipe = <<>>
    /\ Ingredient = <<[id |-> 1, name |-> "flour", measurement_unit |-> "g"]>>
    /\ IngredientInRecipe = <<>>
    /\ Favorite = <<>>
    /\ ShoppingCart = <<>>
    /\ Follow = <<>>
    /\ User = Users
    /\ req = [p \in Workers |-> Idle]

ShortUrlPayloads == {<<[id |-> 1, amount |-> 1]>>}
RecipePks == 1..MaxRecipes

NextShortUrl ==
    \E p \in Workers :
        \/ \E ingredients \in ShortUrlPayloads :
              recipe_create_begin(p, "u1", ingredients)
        \/ generate_short_url_draw(p)
        \/ generate_short_url_check(p)
        \/ Recipe_save(p)
        \/ create_ingredients(p)
        \/ Respond(p)

SpecShortUrl == InitShortUrl /\ [][NextShortUrl]_vars

\* every request that has started keeps taking its steps
FairSpecShortUrl ==
    /\ SpecShortUrl
    /\ \A p \in Workers :
          /\ WF_vars(generate_short_url_draw(p))
          /\ WF_vars(generate_short_url_check(p))
          /\ WF_vars(Recipe_save(p))
          /\ WF_vars(create_ingredients(p))

(***************************************************************************)
(* The life of a recipe, one request at a time: created, saved again,      *)
(* updated, and reached through its short link.                            *)
(***************************************************************************)
NextRecipeLife ==
    \E p \in {1} :
        \/ \E user \in Users, ingredients \in ShortUrlPayloads :
              recipe_create_begin(p, user, ingredients)
        \/ generate_short_url_draw(p)
        \/ generate_short_url_check(p)
        \/ Recipe_save(p)
        \/ create_ingredients(p)
        \/ \E user \in Users, pk \in RecipePks, ingredients \in ShortUrlPayloads :
              recipe_update_begin(p, user, pk, ingredients)
        \/ recipe_update_clear(p)
        \/ \E pk \in RecipePks : recipe_admin_save(p, pk)
        \/ \E user \in Users, pk \in RecipePks : get_link(p, user, pk)
        \/ \E short_url \in get_random_string(ShortUrlLength) :
              short_link_redirect(p, <<"/api/r/", short_url>>)
        \/ Respond(p)

SpecRecipeLife == InitShortUrl /\ [][NextRecipeLife]_vars

(***************************************************************************)
(* The shopping list: RecipeViewSet.download_shopping_cart and             *)
(* ingredients_to_txt (views.py 354-385).                                  *)
(***************************************************************************)
IngredientRow(id) == CHOOSE row \in Range(Ingredient) : row.id = id

\* lines 378-379: IngredientInRecipe.objects.filter(
\*     recipe__shopping_recipe__user=request.user): the join of the
\* IngredientInRecipe rows with the ShoppingCart rows of the user, one joined
\* row <<i, j>> per pair of matching rows
\* (AnyUser: the join without the filter on the user)
JoinedRowsAnyUser(user) ==
    { ij \in (1..Len(IngredientInRecipe)) \X (1..Len(ShoppingCart)) :
         ShoppingCart[ij[2]].recipe = IngredientInRecipe[ij[1]].recipe }
JoinedRows(user) ==
    { ij \in (1..Len(IngredientInRecipe)) \X (1..Len(ShoppingCart)) :
         /\ ShoppingCart[ij[2]].user = user
         /\ ShoppingCart[ij[2]].recipe = IngredientInRecipe[ij[1]].recipe }

\* lines 380-382: .values('ingredient__name', 'ingredient__measurement_unit'):
\* the key a joined row is grouped by
GroupKey(ij) ==
    LET ingredient == IngredientRow(IngredientInRecipe[ij[1]].ingredient) IN
    <<ingredient.name, ingredient.measurement_unit>>

RECURSIVE SumAmount(_)
SumAmount(rows) ==
    IF rows = {} THEN 0
    ELSE LET ij == CHOOSE x \in rows : TRUE IN
         IngredientInRecipe[ij[1]].amount + SumAmount(rows \ {ij})

\* line 383: .annotate(sum=Sum('amount')): one result row per group
ShoppingListQuery(user) ==
    { [ingredient__name |-> key[1],
       ingredient__measurement_unit |-> key[2],
       sum |-> SumAmount({ij \in JoinedRows(user) : GroupKey(ij) = key})] :
      key \in {GroupKey(ij) : ij \in JoinedRows(user)} }

\* the query has no ORDER BY: the store returns the groups in any order
Orderings(S) ==
    { seq \in [1..Cardinality(S) -> S] :
         \A i, j \in 1..Cardinality(S) : i # j => seq[i] # seq[j] }

\* ingredients_to_txt (lines 355-365): one line per result row,
\* f"{name}  - {sum}({measurement_unit})\n", as the pieces of the f-string
ingredients_to_txt(ingredients) ==
    [k \in 1..Len(ingredients) |->
        <<ingredients[k].ingredient__name, "  - ", ingredients[k].sum,
          "(", ingredients[k].ingredient__measurement_unit, ")\n">>]

download_shopping_cart(p, user) ==
    /\ req[p].pc = "idle"
    /\ \E ingredients \in Orderings(ShoppingListQuery(user)) :
          req' = [req EXCEPT ![p] =
                    Done([Begin("download_shopping_cart", "GET", user, 0)
                             EXCEPT !.body = ingredients_to_txt(ingredients)],
                         HTTP_200_OK)]
    /\ UNCHANGED <<Recipe, Ingredient, IngredientInRecipe, Favorite, ShoppingCart, Follow, User>>

\* IngredientAdmin (recipes/admin.py 7-11): the admin site adds an
\* Ingredient row; the model (recipes/models.py 33-50) declares no
\* uniqueness, so any name and unit are stored
IngredientAdmin_add(name, measurement_unit) ==
    /\ Len(Ingredient) < MaxIngredients
    /\ Ingredient' = Append(Ingredient, [id |-> NextId(Ingredient), name |-> name,
                                         measurement_unit |-> measurement_unit])
    /\ UNCHANGED <<Recipe, IngredientInRecipe, Favorite, ShoppingCart, req, Follow, User>>

(***************************************************************************)
(* The shopping list as a function of the store.  The store is any one the *)
(* handlers above leave behind: two recipes; ingredient rows of any names; *)
(* for each recipe the rows of a valid payload (stored ingredients, no id  *)
(* twice, amounts >= 1); at most one cart row per (user, recipe), in any   *)
(* order of insertion.                                                     *)
(***************************************************************************)
IngredientTables ==
    UNION { { [i \in 1..n |-> [id |-> i, name |-> f[i], measurement_unit |-> g[i]]] :
                f \in [1..n -> Names], g \in [1..n -> Units] } :
            n \in 1..MaxIngredients }

\* the ingredient rows of one recipe: one or two distinct stored ingredients
RecipeRows(recipe, n) ==
    { <<[recipe |-> recipe, ingredient |-> i, amount |-> a]>> :
         i \in 1..n, a \in Amounts }
    \cup
    { <<[recipe |-> recipe, ingredient |-> ij[1], amount |-> a],
        [recipe |-> recipe, ingredient |-> ij[2], amount |-> b]>> :
         ij \in {x \in (1..n) \X (1..n) : x[1] < x[2]}, a \in Amounts, b \in Amounts }

CartTables ==
    LET Pairs == {[user |-> u, recipe |-> r] : u \in Users, r \in {1, 2}} IN
    UNION { Orderings(S) : S \in SUBSET Pairs }

InitExport ==
    /\ Recipe = <<[id |-> 1, author |-> "u1", short_url |-> Code("a")],
                  [id |-> 2, author |-> "u2", short_url |-> Code("b")]>>
    /\ Ingredient \in IngredientTables
    /\ \E rows1 \in RecipeRows(1, Len(Ingredient)),
          rows2 \in RecipeRows(2, Len(Ingredient)) :
          IngredientInRecipe = rows1 \o rows2
    /\ Favorite = <<>>
    /\ ShoppingCart \in CartTables
    /\ Follow = <<>>
    /\ User = Users
    /\ req = [p \in Workers |-> Idle]

NextExport ==
    \/ \E user \in Users : download_shopping_cart(1, user)
    \/ \E name \in Names, measurement_unit \in Units :
          IngredientAdmin_add(name, measurement_unit)
    \/ Respond(1)

SpecExport == InitExport /\ [][NextExport]_vars

(***************************************************************************)
(* Exports repeated over one store: nothing but download_shopping_cart     *)
(* runs, so every export reads the same cart and the same                  *)
(* IngredientInRecipe rows.                                                *)
(***************************************************************************)
NextExportTwice ==
    \E p \in Workers :
        \/ \E user \in Users : download_shopping_cart(p, user)
        \/ Respond(p)

SpecExportTwice == InitExport /\ [][NextExportTwice]_vars

(***************************************************************************)
(* POST /recipes/ with the whole payload: the ingredient list and the      *)
(* cooking time.  The view's checks of the list come first (views.py       *)
(* 222-236); serializer.is_valid then runs the field validators, among     *)
(* them MinValueValidator(1) of Recipe.cooking_time (models.py 80-85),     *)
(* which the ModelSerializer takes from the model field, and answers 400   *)
(* with the name of the field.                                             *)
(***************************************************************************)
CookingTimes == {0, 1}

\* (unchecked: a field without its MinValueValidator)
cooking_time_unchecked(cooking_time) == TRUE
cooking_time_is_valid(cooking_time) == cooking_time >= 1

recipe_create(p, user, ingredients, cooking_time) ==
    IF view_ingredients_ok(ingredients) /\ ~cooking_time_is_valid(cooking_time)
    THEN /\ req[p].pc = "idle"
         /\ req' = [req EXCEPT ![p] =
                      Done([Begin("recipe_create", "POST", user, 0)
                               EXCEPT !.body = <<"cooking_time">>],
                           HTTP_400_BAD_REQUEST)]
         /\ UNCHANGED <<Recipe, Ingredient, IngredientInRecipe, Favorite,
                        ShoppingCart, Follow, User>>
    ELSE recipe_create_begin(p, user, ingredients)

\* the ingredient lists of the requests: valid, empty, an id twice, an id
\* that is not stored, an amount of 0
CreatePayloads ==
    { <<[id |-> 1, amount |-> 1]>>,
      <<>>,
      <<[id |-> 1, amount |-> 1], [id |-> 1, amount |-> 2]>>,
      <<[id |-> MaxIngredients + 1, amount |-> 1]>>,
      <<[id |-> 1, amount |-> 0]>> }

NextCreate ==
    \E p \in Workers :
        \/ \E ingredients \in CreatePayloads, cooking_time \in CookingTimes :
              recipe_create(p, "u1", ingredients, cooking_time)
        \/ generate_short_url_draw(p)
        \/ generate_short_url_check(p)
        \/ Recipe_save(p)
        \/ create_ingredients(p)
        \/ Respond(p)

SpecCreate == InitShortUrl /\ [][NextCreate]_vars

(***************************************************************************)
(* Recipe updates under load: PATCH requests of every worker on one stored *)
(* recipe, while the administrator edits the ingredient catalogue.         *)
(***************************************************************************)
\* whether an IngredientInRecipe row names the ingredient
IngredientReferenced(id) ==
    \E i \in 1..Len(IngredientInRecipe) : IngredientInRecipe[i].ingredient = id

\* IngredientAdmin (recipes/admin.py 7-11): the admin site deletes an
\* Ingredient row; the IngredientInRecipe rows that name it go with it
\* (models.py 126-131, on_delete=CASCADE)
IngredientAdmin_delete(id) ==
    /\ IngredientExists(id)
    /\ Ingredient' = SelectSeq(Ingredient, LAMBDA row : row.id # id)
    /\ IngredientInRecipe' =
          SelectSeq(IngredientInRecipe, LAMBDA row : row.ingredient # id)
    /\ UNCHANGED <<Recipe, Favorite, ShoppingCart, Follow, User, req>>

InitUpdate ==
    /\ Recipe = <<[id |-> 1, author |-> "u1", short_url |-> Code("a")]>>
    /\ Ingredient = <<[id |-> 1, name |-> "flour", measurement_unit |-> "g"],
                      [id |-> 2, name |-> "sugar", measurement_unit |-> "g"]>>
    /\ IngredientInRecipe = <<[recipe |-> 1, ingredient |-> 1, amount |-> 1]>>
    /\ Favorite = <<>>
    /\ ShoppingCart = <<>>
    /\ Follow = <<>>
    /\ User = Users
    /\ req = [p \in Workers |-> Idle]

\* every payload lists ingredient 1, the one the stored recipe lists
UpdatePayloads ==
    { <<[id |-> 1, amount |-> 2]>>,
      <<[id |-> 1, amount |-> 1], [id |-> 2, amount |-> 1]>>,
      <<[id |-> 2, amount |-> 2], [id |-> 1, amount |-> 2]>> }

\* the administrator deletes ingredient 2 while no recipe lists it
NextUpdate ==
    \/ \E p \in Workers :
          \/ \E user \in Users, ingredients \in UpdatePayloads :
                recipe_update_begin(p, user, 1, ingredients)
          \/ recipe_update_clear(p)
          \/ create_ingredients(p)
          \/ Recipe_save(p)
          \/ Respond(p)
    \/ ~IngredientReferenced(2) /\ IngredientAdmin_delete(2)

SpecUpdate == InitUpdate /\ [][NextUpdate]_vars

(***************************************************************************)
(* CustomUserViewSet.subscribe (views.py 150-188).  The request keeps the  *)
(* author it names in `body`.                                              *)
(***************************************************************************)
\* line 155: Follow.objects.filter(user=user.id, author=author.id)
FollowExists(user, author) ==
    \E i \in 1..Len(Follow) : Follow[i].user = user /\ Follow[i].author = author

\* UniqueConstraint(fields=["user", "author"]) (models.py 201-206), and the
\* ForeignKey columns user and author (185-196): whether the insert is refused
\* (NoUnique: a Follow table without the constraint unique_follow)
FollowInsertNoUnique(user, author) ==
    \/ user \notin User
    \/ author \notin User
FollowInsertRefused(user, author) ==
    \/ FollowExists(user, author)
    \/ user \notin User
    \/ author \notin User

\* line 159: if user == author (never: a handler without the test)
is_self_never(user, author) == FALSE
is_self(user, author) == user = author

subscribe_begin(p, method, user, id) ==
    /\ req[p].pc = "idle"
    /\ LET r == [Begin("subscribe", method, user, 0) EXCEPT !.body = <<id>>] IN
       req' = [req EXCEPT ![p] =
                IF id \notin User THEN Done(r, HTTP_404_NOT_FOUND)
                ELSE IF method = "POST"
                     THEN IF is_self(user, id)
                          THEN Done(r, HTTP_400_BAD_REQUEST)
                          ELSE IF FollowExists(user, id)
                          THEN Done(r, HTTP_400_BAD_REQUEST)
                          ELSE [r EXCEPT !.pc = "create"]
                     ELSE IF FollowExists(user, id)
                          THEN [r EXCEPT !.pc = "delete"]
                          ELSE Done(r, HTTP_400_BAD_REQUEST)]
    /\ UNCHANGED <<Recipe, Ingredient, IngredientInRecipe, Favorite, ShoppingCart, Follow, User>>

\* lines 169-173: Follow.objects.create(user=user, author=author); the
\* insert raises IntegrityError when it is refused, and nothing catches it
subscribe_create(p) ==
    /\ req[p].pc = "create" /\ req[p].view = "subscribe"
    /\ IF FollowInsertRefused(req[p].user, req[p].body[1])
       THEN /\ req' = [req EXCEPT ![p] = Done(req[p], UnhandledIntegrityError)]
            /\ UNCHANGED Follow
       ELSE /\ Follow' = Append(Follow,
                                [user |-> req[p].user, author |-> req[p].body[1]])
            /\ req' = [req EXCEPT ![p] = Done(req[p], HTTP_201_CREATED)]
    /\ UNCHANGED <<Recipe, Ingredient, IngredientInRecipe, Favorite, ShoppingCart, User>>

\* lines 179-184: change_subscription_status.delete()
subscribe_delete(p) ==
    /\ req[p].pc = "delete" /\ req[p].view = "subscribe"
    /\ Follow' = SelectSeq(Follow, LAMBDA row :
                    ~(row.user = req[p].user /\ row.author = req[p].body[1]))
    /\ req' = [req EXCEPT ![p] = Done(req[p], HTTP_204_NO_CONTENT)]
    /\ UNCHANGED <<Recipe, Ingredient, IngredientInRecipe, Favorite, ShoppingCart, User>>

\* subscriptions under load: every user subscribes to and unsubscribes from
\* every user
NextFollow ==
    \E p \in Workers :
        \/ \E method \in {"POST", "DELETE"}, user \in User, id \in Users :
              subscribe_begin(p, method, user, id)
        \/ subscribe_create(p)
        \/ subscribe_delete(p)
        \/ Respond(p)

SpecFollow == InitMembership /\ [][NextFollow]_vars

(***************************************************************************)
(* Deletion.  Every ForeignKey of recipes/models.py is on_delete=CASCADE   *)
(* (lines 59, 122, 128, 158, 164, 188, 193, 217, 223): Model.delete()      *)
(* removes, in one transaction, the rows that reference the deleted ones.  *)
(***************************************************************************)
\* (DO_NOTHING: a ForeignKey that leaves the referencing rows in place)
on_delete_DO_NOTHING(table, field, values) == table
on_delete_CASCADE(table, field, values) ==
    SelectSeq(table, LAMBDA row : row[field] \notin values)

\* Recipe rows `pks` are deleted, with the rows that reference them
DeleteRecipes(pks, users) ==
    /\ Recipe' = SelectSeq(Recipe, LAMBDA row : row.id \notin pks)
    /\ IngredientInRecipe' = on_delete_CASCADE(IngredientInRecipe, "recipe", pks)
    /\ Favorite' = on_delete_CASCADE(on_delete_CASCADE(Favorite, "recipe", pks),
                                     "user", users)
    /\ ShoppingCart' = on_delete_CASCADE(on_delete_CASCADE(ShoppingCart, "recipe", pks),
                                         "user", users)

\* DELETE /recipes/{pk}/: ModelViewSet.destroy of RecipeViewSet (views.py
\* 191-198): get_object, with its permission check, then instance.delete()
recipe_destroy_begin(p, user, pk) ==
    /\ req[p].pc = "idle"
    /\ LET r == Begin("recipe_destroy", "DELETE", user, pk) IN
       req' = [req EXCEPT ![p] =
                IF ~RecipeExists(pk) THEN Done(r, HTTP_404_NOT_FOUND)
                ELSE IF ~IsAuthorOrReadOnly("DELETE", user, RecipeRow(pk))
                THEN Done(r, HTTP_403_FORBIDDEN)
                ELSE [r EXCEPT !.pc = "destroy"]]
    /\ UNCHANGED <<Recipe, Ingredient, IngredientInRecipe, Favorite, ShoppingCart, Follow, User>>

recipe_destroy_delete(p) ==
    /\ req[p].pc = "destroy"
    /\ DeleteRecipes({req[p].pk}, {})
    /\ req' = [req EXCEPT ![p] = Done(req[p], HTTP_204_NO_CONTENT)]
    /\ UNCHANGED <<Ingredient, Follow, User>>

\* MyUserAdmin (users/admin.py 7-14): the admin site deletes a user; the
\* user's recipes (Recipe.author), memberships and subscriptions, on either
\* side, go with it
User_delete(user) ==
    /\ user \in User
    /\ User' = User \ {user}
    /\ DeleteRecipes({Recipe[i].id : i \in {k \in 1..Len(Recipe) :
                                               Recipe[k].author = user}}, {user})
    /\ Follow' = on_delete_CASCADE(on_delete_CASCADE(Follow, "user", {user}),
                                   "author", {user})
    /\ UNCHANGED <<Ingredient, req>>

InitCascade ==
    /\ Recipe = <<[id |-> 1, author |-> "u1", short_url |-> Code("a")],
                  [id |-> 2, author |-> "u2", short_url |-> Code("b")]>>
    /\ Ingredient = <<[id |-> 1, name |-> "flour", measurement_unit |-> "g"]>>
    /\ IngredientInRecipe = <<[recipe |-> 1, ingredient |-> 1, amount |-> 1],
                              [recipe |-> 2, ingredient |-> 1, amount |-> 1]>>
    /\ Favorite = <<>>
    /\ ShoppingCart = <<>>
    /\ Follow = <<>>
    /\ User = Users
    /\ req = [p \in Workers |-> Idle]

\* u1 adds recipes to the favorites, u2 to the shopping cart; u2 subscribes
\* to u1; the stored users delete their own recipes, while the administrator
\* deletes users
NextCascade ==
    \/ \E p \in Workers :
          \/ \E pk \in StoredPks :
                "u1" \in User /\ favorite_begin(p, "POST", "u1", pk)
          \/ favorite_create(p)
          \/ \E pk \in StoredPks :
                "u2" \in User /\ shopping_cart_begin(p, "POST", "u2", pk)
          \/ shopping_cart_create(p)
          \/ "u2" \in User /\ subscribe_begin(p, "POST", "u2", "u1")
          \/ subscribe_create(p)
          \/ \E pk \in StoredPks :
                recipe_destroy_begin(p, RecipeRow(pk).author, pk)
          \/ recipe_destroy_delete(p)
          \/ Respond(p)
    \/ \E user \in User : User_delete(user)

SpecCascade == InitCascade /\ [][NextCascade]_vars

(***************************************************************************)
(* Ownership: every user reads, updates and deletes the recipes of both    *)
(* authors, one request at a time (RecipeViewSet, views.py 191-284).       *)
(***************************************************************************)
OwnershipPayloads ==
    { <<[id |-> 1, amount |-> 2]>>,     \* valid
      <<>> }                            \* empty list

NextOwnership ==
    \E p \in {1} :
        \/ \E user \in Users, pk \in {1, 2}, ingredients \in OwnershipPayloads :
              recipe_update_begin(p, user, pk, ingredients)
        \/ recipe_update_clear(p)
        \/ create_ingredients(p)
        \/ Recipe_save(p)
        \/ \E user \in Users, pk \in {1, 2} : recipe_destroy_begin(p, user, pk)
        \/ recipe_destroy_delete(p)
        \/ \E user \in Users, pk \in {1, 2} : get_link(p, user, pk)
        \/ Respond(p)

SpecOwnership == InitCascade /\ [][NextOwnership]_vars

(***************************************************************************)
(* Replacement of the ingredient rows: the authors of two stored recipes   *)
(* update them under load, with lists that share an ingredient and lists   *)
(* that do not (serializers.py 264-271).                                   *)
(***************************************************************************)
InitReplace ==
    /\ Recipe = <<[id |-> 1, author |-> "u1", short_url |-> Code("a")],
                  [id |-> 2, author |-> "u2", short_url |-> Code("b")]>>
    /\ Ingredient = <<[id |-> 1, name |-> "flour", measurement_unit |-> "g"],
                      [id |-> 2, name |-> "sugar", measurement_unit |-> "g"]>>
    /\ IngredientInRecipe = <<[recipe |-> 1, ingredient |-> 1, amount |-> 1],
                              [recipe |-> 2, ingredient |-> 1, amount |-> 1]>>
    /\ Favorite = <<>>
    /\ ShoppingCart = <<>>
    /\ Follow = <<>>
    /\ User = Users
    /\ req = [p \in Workers |-> Idle]

ReplacePayloads ==
    { <<[id |-> 1, amount |-> 2]>>,
      <<[id |-> 2, amount |-> 1]>>,
      <<[id |-> 2, amount |-> 2], [id |-> 1, amount |-> 1]>> }

NextReplace ==
    \E p \in Workers :
        \/ \E pk \in {1, 2}, ingredients \in ReplacePayloads :
              recipe_update_begin(p, RecipeRow(pk).author, pk, ingredients)
        \/ recipe_update_clear(p)
        \/ create_ingredients(p)
        \/ Recipe_save(p)
        \/ Respond(p)

SpecReplace == InitReplace /\ [][NextReplace]_vars

(***************************************************************************)
(* The two membership sets side by side: u1 adds and removes both recipes  *)
(* in both sets under load, on a store where u2 already holds both recipes *)
(* in both sets (views.py 293-352).                                        *)
(***************************************************************************)
InitFrame ==
    /\ Recipe = <<[id |-> 1, author |-> "u1", short_url |-> Code("a")],
                  [id |-> 2, author |-> "u2", short_url |-> Code("b")]>>
    /\ Ingredient = <<[id |-> 1, name |-> "flour", measurement_unit |-> "g"]>>
    /\ IngredientInRecipe = <<[recipe |-> 1, ingredient |-> 1, amount |-> 1],
                              [recipe |-> 2, ingredient |-> 1, amount |-> 1]>>
    /\ Favorite = <<[user |-> "u2", recipe |-> 1], [user |-> "u2", recipe |-> 2]>>
    /\ ShoppingCart = <<[user |-> "u2", recipe |-> 2], [user |-> "u2", recipe |-> 1]>>
    /\ Follow = <<>>
    /\ User = Users
    /\ req = [p \in Workers |-> Idle]

NextFrame ==
    \E p \in Workers :
        \/ \E method \in {"POST", "DELETE"}, pk \in {1, 2} :
              favorite_begin(p, method, "u1", pk)
        \/ favorite_create(p)
        \/ favorite_delete(p)
        \/ \E method \in {"POST", "DELETE"}, pk \in {1, 2} :
              shopping_cart_begin(p, method, "u1", pk)
        \/ shopping_cart_create(p)
        \/ shopping_cart_delete(p)
        \/ Respond(p)

SpecFrame == InitFrame /\ [][NextFrame]_vars

(***************************************************************************)
(* GET /recipes/{pk}/: ModelViewSet.retrieve of RecipeViewSet with          *)
(* RecipeSerializer (views.py 199-204, serializers.py 125-165).  The       *)
(* serializer computes the fields in the order of Meta.fields:             *)
(* is_favorited, then is_in_shopping_cart, one query each.  The response   *)
(* body is <<is_favorited, is_in_shopping_cart>>.                          *)
(***************************************************************************)
\* (any_user: the query without the filter on the user and without the test
\* for an anonymous requester)
get_is_favorited_any_user(user, obj) ==
    \E i \in 1..Len(Favorite) : Favorite[i].recipe = obj
\* get_is_favorited (serializers.py 151-156)
get_is_favorited(user, obj) ==
    IF user = None THEN FALSE ELSE Exists(Favorite, user, obj)

\* get_is_in_shopping_cart (serializers.py 158-165)
get_is_in_shopping_cart(user, obj) ==
    IF user = None THEN FALSE ELSE Exists(ShoppingCart, user, obj)

\* get_object(): 404 when the recipe is not stored
retrieve_begin(p, user, pk) ==
    /\ req[p].pc = "idle"
    /\ LET r == Begin("retrieve", "GET", user, pk) IN
       req' = [req EXCEPT ![p] =
                IF ~RecipeExists(pk) THEN Done(r, HTTP_404_NOT_FOUND)
                ELSE [r EXCEPT !.pc = "is_favorited"]]
    /\ UNCHANGED <<Recipe, Ingredient, IngredientInRecipe, Favorite, ShoppingCart, Follow, User>>

retrieve_is_favorited(p) ==
    /\ req[p].pc = "is_favorited"
    /\ req' = [req EXCEPT ![p].body = <<get_is_favorited(req[p].user, req[p].pk)>>,
                          ![p].pc = "is_in_shopping_cart"]
    /\ UNCHANGED <<Recipe, Ingredient, IngredientInRecipe, Favorite, ShoppingCart, Follow, User>>

retrieve_is_in_shopping_cart(p) ==
    /\ req[p].pc = "is_in_shopping_cart"
    /\ req' = [req EXCEPT ![p] =
                 Done([req[p] EXCEPT !.body =
                          Append(req[p].body,
                                 get_is_in_shopping_cart(req[p].user, req[p].pk))],
                      HTTP_200_OK)]
    /\ UNCHANGED <<Recipe, Ingredient, IngredientInRecipe, Favorite, ShoppingCart, Follow, User>>

\* u1 adds the stored recipe to and removes it from both sets, while u1, u2
\* and an anonymous requester read the recipe
NextRender ==
    \E p \in Workers :
        \/ \E method \in {"POST", "DELETE"}, pk \in StoredPks :
              favorite_begin(p, method, "u1", pk)
        \/ favorite_create(p)
        \/ favorite_delete(p)
        \/ \E method \in {"POST", "DELETE"}, pk \in StoredPks :
              shopping_cart_begin(p, method, "u1", pk)
        \/ shopping_cart_create(p)
        \/ shopping_cart_delete(p)
        \/ \E user \in Users \cup {None}, pk \in StoredPks : retrieve_begin(p, user, pk)
        \/ retrieve_is_favorited(p)
        \/ retrieve_is_in_shopping_cart(p)
        \/ Respond(p)

SpecRender == InitMembership /\ [][NextRender]_vars

(***************************************************************************)
(* The ingredient catalogue: the administrator adds and deletes Ingredient *)
(* rows while the author of the stored recipe changes its ingredients.     *)
(***************************************************************************)
CataloguePayloads ==
    { <<[id |-> i, amount |-> 1]>> : i \in 1..MaxIngredients }
    \cup { <<[id |-> 1, amount |-> 1], [id |-> 2, amount |-> 1]>> }

NextCatalogue ==
    \/ \E name \in Names, measurement_unit \in Units :
          IngredientAdmin_add(name, measurement_unit)
    \/ \E id \in 1..MaxIngredients : IngredientAdmin_delete(id)
    \/ \E p \in {1} :
          \/ \E ingredients \in CataloguePayloads :
                recipe_update_begin(p, "u1", 1, ingredients)
          \/ recipe_update_clear(p)
          \/ create_ingredients(p)
          \/ Recipe_save(p)
          \/ Respond(p)

SpecCatalogue == InitMembership /\ [][NextCatalogue]_vars

(***************************************************************************)
(* Properties of the collection service.                                   *)
(***************************************************************************)
MembershipViews == {"favorite", "shopping_cart"}
Table(view) == IF view = "favorite" THEN Favorite ELSE ShoppingCart

\* worker p has finished a POST (add) on `view` for (user, pk)
AddDone(p, view, user, pk) ==
    /\ req[p].pc = "done" /\ req[p].view = view /\ req[p].method = "POST"
    /\ req[p].user = user /\ req[p].pk = pk

\* worker p has finished a DELETE (remove) on `view` for (user, pk)
RemoveDone(p, view, user, pk) ==
    /\ req[p].pc = "done" /\ req[p].view = view /\ req[p].method = "DELETE"
    /\ req[p].user = user /\ req[p].pk = pk

\* C1: under every interleaving of add and remove requests each of Favorite
\* and ShoppingCart holds at most one row per (user, recipe); and when all
\* NumWorkers workers have completed an add of the same (user, recipe) to the
\* same set, that set holds exactly one row for the pair.
C1_AtMostOneMembershipRow ==
    \A view \in MembershipViews, user \in Users, pk \in StoredPks :
        /\ CountRows(Table(view), user, pk) <= 1
        /\ (\A p \in Workers : AddDone(p, view, user, pk))
              => CountRows(Table(view), user, pk) = 1

\* two adds of the same pair ran concurrently (the second passed the
\* pre-check before the first inserted) and both have completed
C1_Witness ==
    \E p, q \in Workers, view \in MembershipViews, user \in Users, pk \in StoredPks :
        /\ p # q
        /\ \A w \in Workers : AddDone(w, view, user, pk)
        /\ req[p].status = HTTP_201_CREATED
        /\ req[q].status = UnhandledIntegrityError
        /\ CountRows(Table(view), user, pk) = 1

\* C2: no add request (favorite or shopping_cart POST) ends in an unhandled
\* fault: the add whose insert violates the uniqueness constraint ends with
\* the AlreadyMember conflict (400).
C2_NoUnhandledFaultOnAdd ==
    \A p \in Workers :
        (req[p].pc = "done" /\ req[p].view \in MembershipViews /\ req[p].method = "POST")
            => req[p].status # UnhandledIntegrityError

\* C3: an add whose pre-check finds the (user, recipe) row already in the set
\* ends at once with the AlreadyMember conflict (400) and changes no table;
\* an add that returns Added (201) leaves exactly one row of the pair in its
\* set, so the next add of that pair finds it.
C3_AddOnMemberConflicts ==
    [][\A p \in Workers, view \in MembershipViews, user \in Users, pk \in StoredPks :
          /\ ( /\ req[p].pc = "idle"
               /\ req'[p].view = view /\ req'[p].method = "POST"
               /\ req'[p].user = user /\ req'[p].pk = pk
               /\ Exists(Table(view), user, pk) )
             => /\ req'[p].pc = "done"
                /\ req'[p].status = HTTP_400_BAD_REQUEST
                /\ UNCHANGED <<Favorite, ShoppingCart>>
          /\ ( /\ req[p].pc = "create" /\ req[p].view = view
               /\ req[p].user = user /\ req[p].pk = pk
               /\ req'[p].status = HTTP_201_CREATED )
             => /\ ~Exists(Table(view), user, pk)
                /\ CountRows(Table(view)', user, pk) = 1
      ]_vars

\* add followed by add: one worker's add returned Added, another's add of the
\* same pair returned AlreadyMember, and the pair has its single row
C3_Witness ==
    \E p, q \in Workers, view \in MembershipViews, user \in Users, pk \in StoredPks :
        /\ AddDone(p, view, user, pk) /\ req[p].status = HTTP_201_CREATED
        /\ AddDone(q, view, user, pk) /\ req[q].status = HTTP_400_BAD_REQUEST
        /\ CountRows(Table(view), user, pk) = 1

\* C4: a remove whose pre-check finds no (user, recipe) row ends at once with
\* NotMember (400) and changes no table; a remove whose pre-check finds the
\* row deletes: it returns Removed (204), no row of the pair is left, and
\* every other row of every table is kept in place.
C4_RemoveDeletesOrNotMember ==
    [][\A p \in Workers, view \in MembershipViews, user \in Users, pk \in StoredPks :
          /\ ( /\ req[p].pc = "idle"
               /\ req'[p].view = view /\ req'[p].method = "DELETE"
               /\ req'[p].user = user /\ req'[p].pk = pk )
             => IF Exists(Table(view), user, pk)
                THEN req'[p].pc = "delete" /\ UNCHANGED <<Favorite, ShoppingCart>>
                ELSE /\ req'[p].pc = "done"
                     /\ req'[p].status = HTTP_400_BAD_REQUEST
                     /\ UNCHANGED <<Favorite, ShoppingCart>>
          /\ ( /\ req[p].pc = "delete" /\ req[p].view = view
               /\ req[p].user = user /\ req[p].pk = pk
               /\ req'[p] # req[p] )
             => /\ req'[p].pc = "done"
                /\ req'[p].status = HTTP_204_NO_CONTENT
                /\ CountRows(Table(view)', user, pk) = 0
                /\ Table(view)' = SelectSeq(Table(view),
                        LAMBDA row : ~(row.user = user /\ row.recipe = pk))
                /\ (view = "favorite" => UNCHANGED ShoppingCart)
                /\ (view = "shopping_cart" => UNCHANGED Favorite)
      ]_vars

\* remove followed by remove: one worker's remove returned Removed, another's
\* remove of the same pair returned NotMember, and the pair has no row
C4_Witness ==
    \E p, q \in Workers, view \in MembershipViews, user \in Users, pk \in StoredPks :
        /\ RemoveDone(p, view, user, pk) /\ req[p].status = HTTP_204_NO_CONTENT
        /\ RemoveDone(q, view, user, pk) /\ req[q].status = HTTP_400_BAD_REQUEST
        /\ CountRows(Table(view), user, pk) = 0

(***************************************************************************)
(* Properties of the shopping list.                                        *)
(***************************************************************************)
\* the recipes in the user's cart, and the ingredients they list
CartRecipes(user) ==
    {ShoppingCart[j].recipe : j \in {k \in 1..Len(ShoppingCart) :
                                        ShoppingCart[k].user = user}}
CartIngredients(user) ==
    {IngredientInRecipe[i].ingredient :
        i \in {k \in 1..Len(IngredientInRecipe) :
                  IngredientInRecipe[k].recipe \in CartRecipes(user)}}

RECURSIVE SumOfAmounts(_)
SumOfAmounts(indices) ==
    IF indices = {} THEN 0
    ELSE LET i == CHOOSE x \in indices : TRUE IN
         IngredientInRecipe[i].amount + SumOfAmounts(indices \ {i})

\* the total of one ingredient over the recipes of the user's cart
TotalAmount(user, ingredient) ==
    SumOfAmounts({i \in 1..Len(IngredientInRecipe) :
                     /\ IngredientInRecipe[i].ingredient = ingredient
                     /\ IngredientInRecipe[i].recipe \in CartRecipes(user)})

\* the line the export owes to one ingredient
LineOf(user, ingredient) ==
    <<IngredientRow(ingredient).name, "  - ", TotalAmount(user, ingredient),
      "(", IngredientRow(ingredient).measurement_unit, ")\n">>

\* `lines` holds exactly one line per ingredient of the user's cart, each with
\* that ingredient's total
OneLinePerIngredient(user, lines) ==
    /\ Len(lines) = Cardinality(CartIngredients(user))
    /\ \E f \in [1..Len(lines) -> CartIngredients(user)] :
          /\ \A i, j \in 1..Len(lines) : i # j => f[i] # f[j]
          /\ \A i \in 1..Len(lines) : lines[i] = LineOf(user, f[i])

\* C5: every shopping-list export of a user holds exactly one entry per
\* ingredient (by ingredient identity) of the recipes in the user's cart, and
\* the entry's total is the sum of amount over the IngredientInRecipe rows of
\* that ingredient whose recipe is in the cart, whatever the order the cart
\* rows were inserted in.
C5_ExportOneEntryPerIngredient ==
    \A p \in Workers :
        (req[p].pc = "done" /\ req[p].view = "download_shopping_cart")
            => OneLinePerIngredient(req[p].user, req[p].body)

(***************************************************************************)
(* Properties of the short codes.                                          *)
(***************************************************************************)
CreateDone(p) == req[p].pc = "done" /\ req[p].view = "recipe_create"

\* C6: in every state, concurrent creations included, any two distinct
\* recipes hold distinct short codes of 6 characters: the N stored recipes
\* hold N codes.
C6_DistinctShortCodes ==
    /\ \A i, j \in 1..Len(Recipe) :
          i # j => /\ Recipe[i].id # Recipe[j].id
                   /\ Recipe[i].short_url # Recipe[j].short_url
    /\ \A i \in 1..Len(Recipe) : Len(Recipe[i].short_url) = 6
    /\ Cardinality({Recipe[i].short_url : i \in 1..Len(Recipe)}) = Len(Recipe)

\* two creations ran concurrently with the same candidate: one stored its
\* recipe, the other's insert was refused, and another recipe is stored too
C6_Witness ==
    /\ Len(Recipe) = 2
    /\ \E p, q \in Workers :
          /\ CreateDone(p) /\ req[p].status = HTTP_201_CREATED
          /\ CreateDone(q) /\ req[q].status = UnhandledIntegrityError

\* C7: short-code allocation always terminates: a request in the allocation
\* loop leaves it, with a code no recipe holds or with AllocationExhausted.
C7_AllocationTerminates ==
    \A p \in Workers :
        (req[p].pc \in {"generate", "check"})
            ~> (req[p].pc \notin {"generate", "check"})

\* C8: a recipe creation whose insert violates the short-code uniqueness
\* constraint retries with a fresh candidate: no creation ends in the
\* unhandled constraint violation.
C8_LateCollisionRetried ==
    \A p \in Workers : CreateDone(p) => req[p].status # UnhandledIntegrityError

C10_ResolveRoundTrip ==
    /\ \A i \in 1..Len(Recipe) :
          resolve(short_link(Recipe[i])[2]) =
              [found |-> TRUE, recipe_id |-> Recipe[i].id]
    /\ \A code \in get_random_string(ShortUrlLength) :
          (\A i \in 1..Len(Recipe) : Recipe[i].short_url # code)
              => resolve(code) = NotFound
    /\ \A p \in Workers :
          /\ (req[p].pc = "done" /\ req[p].view = "get_link"
                /\ req[p].status = HTTP_200_OK)
               => resolve(req[p].body[2]) =
                     [found |-> TRUE, recipe_id |-> req[p].pk]
          /\ (req[p].pc = "done" /\ req[p].view = "short_link_redirect")
               => IF req[p].status = HTTP_302_FOUND
                  THEN /\ RecipeExists(req[p].pk)
                       /\ RecipeRow(req[p].pk).short_url = req[p].body[2]
                  ELSE /\ req[p].status = HTTP_404_NOT_FOUND
                       /\ \A i \in 1..Len(Recipe) :
                             Recipe[i].short_url # req[p].body[2]

\* two recipes are stored and the short link of the second resolved to it
C10_Witness ==
    /\ Len(Recipe) >= 2
    /\ \E p \in Workers :
          /\ req[p].pc = "done" /\ req[p].view = "short_link_redirect"
          /\ req[p].status = HTTP_302_FOUND
          /\ req[p].pk = Recipe[2].id
          /\ req[p].body = short_link(Recipe[2])
(***************************************************************************)
(* Properties of recipe creation and update.                               *)
(***************************************************************************)
\* an ingredient list the claim calls invalid: empty, or an id twice
InvalidIngredients(ingredients) ==
    \/ ingredients = <<>>
    \/ \E i, j \in 1..Len(ingredients) :
          i # j /\ ingredients[i].id = ingredients[j].id

RowsOfRecipe(pk) ==
    {i \in 1..Len(IngredientInRecipe) : IngredientInRecipe[i].recipe = pk}

\* C12: recipe creation is atomic: in every state, the states between the
\* statements of a running creation included, every stored recipe row has
\* its ingredient rows, so no other request can read a recipe without them.
C12_CreateAtomic ==
    \A i \in 1..Len(Recipe) : RowsOfRecipe(Recipe[i].id) # {}

\* worker p has finished an update of recipe pk without success
UpdateFailed(p, pk) ==
    /\ req[p].pc = "done" /\ req[p].view = "recipe_update" /\ req[p].pk = pk
    /\ req[p].status # HTTP_200_OK

\* an update of recipe pk is between its statements
UpdateRunning(pk) ==
    \E p \in Workers :
        /\ req[p].view = "recipe_update" /\ req[p].pk = pk
        /\ req[p].pc \in {"clear", "ingredients", "save"}

\* C13: a recipe update that fails applies none of its effect.  Ingredient 1
\* is never deleted and every update lists it, so the recipe lists it before
\* every request; once an update has failed, and no other update of the
\* recipe is running, the recipe still lists it.
C13_FailedUpdateNoEffect ==
    \A p \in Workers, pk \in StoredPks :
        (UpdateFailed(p, pk) /\ ~UpdateRunning(pk))
            => \E i \in RowsOfRecipe(pk) : IngredientInRecipe[i].ingredient = 1

\* C16: in every state there is at most one IngredientInRecipe row per
\* (recipe, ingredient): no recipe lists the same ingredient twice, whatever
\* updates of it run one after another or at the same time.
C16_UniqueIngredientInRecipe ==
    \A i, j \in 1..Len(IngredientInRecipe) :
        ( /\ IngredientInRecipe[i].recipe = IngredientInRecipe[j].recipe
          /\ IngredientInRecipe[i].ingredient = IngredientInRecipe[j].ingredient )
        => i = j

\* two updates of the recipe ran at the same time: one stored its rows, the
\* insert of the other was refused
C16_Witness ==
    \E p, q \in Workers :
        /\ req[p].pc = "done" /\ req[p].view = "recipe_update"
        /\ req[p].status = HTTP_200_OK
        /\ req[q].pc = "done" /\ req[q].view = "recipe_update"
        /\ req[q].status = UnhandledIntegrityError
        /\ Cardinality(RowsOfRecipe(1)) = 2

C14_NoDanglingReference ==
    /\ \A i \in 1..Len(Recipe) : Recipe[i].author \in User
    /\ \A i \in 1..Len(IngredientInRecipe) :
          /\ RecipeExists(IngredientInRecipe[i].recipe)
          /\ IngredientExists(IngredientInRecipe[i].ingredient)
    /\ \A i \in 1..Len(Favorite) :
          Favorite[i].user \in User /\ RecipeExists(Favorite[i].recipe)
    /\ \A i \in 1..Len(ShoppingCart) :
          ShoppingCart[i].user \in User /\ RecipeExists(ShoppingCart[i].recipe)
    /\ \A i \in 1..Len(Follow) :
          Follow[i].user \in User /\ Follow[i].author \in User

\* a recipe was added to the favorites (201) and then deleted by its author
\* (204): its Favorite row went with it, and so did its ingredient rows
C14_Witness ==
    \E p, q \in Workers :
        /\ AddDone(p, "favorite", "u1", req[p].pk)
        /\ req[p].status = HTTP_201_CREATED
        /\ req[q].pc = "done" /\ req[q].view = "recipe_destroy"
        /\ req[q].status = HTTP_204_NO_CONTENT
        /\ req[q].pk = req[p].pk
        /\ ~RecipeExists(req[q].pk)
        /\ ~Exists(Favorite, "u1", req[q].pk)
        /\ RowsOfRecipe(req[q].pk) = {}

(***************************************************************************)
(* Properties of the ingredient catalogue and of the export.               *)
(***************************************************************************)
\* C17: no two Ingredient rows share both name and measurement_unit.
C17_IngredientIdentityUnique ==
    \A i, j \in 1..Len(Ingredient) :
        ( /\ Ingredient[i].name = Ingredient[j].name
          /\ Ingredient[i].measurement_unit = Ingredient[j].measurement_unit )
        => i = j

\* C18: the export of a user whose ShoppingCart set is empty succeeds (200)
\* with a report of zero lines.
C18_EmptyCartEmptyReport ==
    \A p \in Workers :
        ( /\ req[p].pc = "done" /\ req[p].view = "download_shopping_cart"
          /\ CartRecipes(req[p].user) = {} )
        => /\ req[p].status = HTTP_200_OK
           /\ req[p].body = <<>>

\* a user with an empty cart has exported, while the other user's cart holds
\* recipes
C18_Witness ==
    \E p \in Workers :
        /\ req[p].pc = "done" /\ req[p].view = "download_shopping_cart"
        /\ req[p].status = HTTP_200_OK
        /\ CartRecipes(req[p].user) = {}
        /\ \E user \in Users : Cardinality(CartRecipes(user)) = 2

\* C19: two exports by the same user over the same store produce the same
\* sequence of lines.  (Under SpecExportTwice the store never changes.)
C19_ExportOrderDeterministic ==
    \A p, q \in Workers :
        ( /\ req[p].pc = "done" /\ req[p].view = "download_shopping_cart"
          /\ req[q].pc = "done" /\ req[q].view = "download_shopping_cart"
          /\ req[p].user = req[q].user )
        => req[p].body = req[q].body

\* C20: an update or delete of a stored recipe requested by a user who is
\* not its author is answered 403 and changes no table; a read of a stored
\* recipe by any user succeeds.
C20_NonAuthorForbidden ==
    [][\A p \in Workers :
          /\ ( /\ req[p].pc = "idle"
               /\ req'[p].view \in {"recipe_update", "recipe_destroy"}
               /\ RecipeExists(req'[p].pk)
               /\ RecipeRow(req'[p].pk).author # req'[p].user )
             => /\ req'[p].pc = "done"
                /\ req'[p].status = HTTP_403_FORBIDDEN
                /\ UNCHANGED <<Recipe, Ingredient, IngredientInRecipe, Favorite,
                               ShoppingCart, Follow, User>>
          /\ ( /\ req[p].pc = "idle"
               /\ req'[p].view = "get_link"
               /\ RecipeExists(req'[p].pk) )
             => req'[p].status = HTTP_200_OK
      ]_vars

CountFollow(user, author) ==
    Cardinality({i \in 1..Len(Follow) :
                    Follow[i].user = user /\ Follow[i].author = author})

\* C21: a subscribe POST that finds Follow(user, author) ends at once with
\* 400 and leaves the Follow rows unchanged; an insert attempted while the
\* row exists adds nothing; so under every interleaving of subscribe
\* requests Follow holds at most one row per (user, author).
C21_FollowUnique ==
    /\ [](\A user \in Users, author \in Users : CountFollow(user, author) <= 1)
    /\ [][\A p \in Workers :
             /\ ( /\ req[p].pc = "idle"
                  /\ req'[p].view = "subscribe" /\ req'[p].method = "POST"
                  /\ FollowExists(req'[p].user, req'[p].body[1]) )
                => /\ req'[p].pc = "done"
                   /\ req'[p].status = HTTP_400_BAD_REQUEST
                   /\ UNCHANGED Follow
             /\ ( /\ req[p].pc = "create" /\ req[p].view = "subscribe"
                  /\ req'[p].pc = "done"
                  /\ FollowExists(req[p].user, req[p].body[1]) )
                => /\ UNCHANGED Follow
                   /\ req'[p].status # HTTP_201_CREATED
       ]_vars

\* two subscribe requests of the same pair ran concurrently (both passed the
\* exists() test before either inserted) and both have completed: one row
C21_Witness ==
    \E p, q \in Workers :
        /\ req[p].pc = "done" /\ req[p].view = "subscribe" /\ req[p].method = "POST"
        /\ req[q].pc = "done" /\ req[q].view = "subscribe" /\ req[q].method = "POST"
        /\ req[p].user = req[q].user /\ req[p].body = req[q].body
        /\ req[p].status = HTTP_201_CREATED
        /\ req[q].status = UnhandledIntegrityError
        /\ CountFollow(req[p].user, req[p].body[1]) = 1

(***************************************************************************)
(* Properties of the replacement of ingredient rows, of the membership     *)
(* sets as frames, and of the rendered flags.                              *)
(***************************************************************************)
\* the (ingredient, amount) pairs of a request's list, and of the stored rows
\* of a recipe in table `rows`
PairsOfList(ingredients) ==
    {<<ingredients[i].id, ingredients[i].amount>> : i \in 1..Len(ingredients)}
PairsOfRecipe(rows, pk) ==
    {<<rows[i].ingredient, rows[i].amount>> :
        i \in {k \in 1..Len(rows) : rows[k].recipe = pk}}

\* C22: when an update of recipe r with list L has written its rows (the
\* step of create_ingredients after which only the save of the recipe row
\* remains), the IngredientInRecipe rows of r are exactly the pairs of L, and
\* neither that step nor the clearing step changes the rows of another recipe.
C22_UpdateReplacesRows ==
    [][\A p \in Workers :
          /\ ( /\ req[p].pc = "ingredients" /\ req[p].view = "recipe_update"
               /\ req'[p].pc = "save" )
             => PairsOfRecipe(IngredientInRecipe', req[p].pk)
                   = PairsOfList(req[p].ingredients)
          /\ ( /\ req[p].view = "recipe_update"
               /\ req[p].pc \in {"clear", "ingredients"}
               /\ req'[p] # req[p] )
             => \A pk \in StoredPks \ {req[p].pk} :
                   PairsOfRecipe(IngredientInRecipe', pk)
                      = PairsOfRecipe(IngredientInRecipe, pk)
      ]_vars

\* worker p takes a step of a request on `view`
Acting(p, view) ==
    /\ req'[p] # req[p]
    /\ IF req[p].pc = "idle" THEN req'[p].view = view ELSE req[p].view = view

\* the request worker p is serving in this step
Serving(p) == IF req[p].pc = "idle" THEN req'[p] ELSE req[p]

\* the rows of a membership table that belong to other (user, recipe) pairs,
\* in their stored order
OtherRows(table, user, recipe) ==
    SelectSeq(table, LAMBDA row : row.user # user \/ row.recipe # recipe)

\* C23: every step of an add or remove on Favorite for (u, r) leaves
\* ShoppingCart unchanged and leaves the Favorite rows of every other
\* (user, recipe) pair in place; and symmetrically for ShoppingCart.
C23_MembershipSetsIndependent ==
    [][\A p \in Workers :
          /\ Acting(p, "favorite")
             => /\ UNCHANGED ShoppingCart
                /\ OtherRows(Favorite', Serving(p).user, Serving(p).pk)
                      = OtherRows(Favorite, Serving(p).user, Serving(p).pk)
          /\ Acting(p, "shopping_cart")
             => /\ UNCHANGED Favorite
                /\ OtherRows(ShoppingCart', Serving(p).user, Serving(p).pk)
                      = OtherRows(ShoppingCart, Serving(p).user, Serving(p).pk)
      ]_vars

\* u1 has removed recipe 1 from the favorites and has added recipe 2 to the
\* shopping cart; u1's other favorite, u2's rows and the cart are in place
C23_Witness ==
    \E p, q \in Workers :
        /\ RemoveDone(p, "favorite", "u1", 1) /\ req[p].status = HTTP_204_NO_CONTENT
        /\ AddDone(q, "shopping_cart", "u1", 2) /\ req[q].status = HTTP_201_CREATED
        /\ ~Exists(Favorite, "u1", 1)
        /\ Exists(Favorite, "u1", 2)
        /\ Exists(Favorite, "u2", 1) /\ Exists(Favorite, "u2", 2)
        /\ Exists(ShoppingCart, "u2", 1) /\ Exists(ShoppingCart, "u2", 2)
        /\ Exists(ShoppingCart, "u1", 2) /\ ~Exists(ShoppingCart, "u1", 1)

\* C24: when a stored recipe is rendered to a requester, the is_favorited
\* flag written is true exactly when the Favorite row of (requester, recipe)
\* exists in the state the flag is read in, and the is_in_shopping_cart flag
\* is true exactly when the ShoppingCart row exists; both flags are false for
\* an anonymous requester.
C24_FlagsMatchMembership ==
    [][\A p \in Workers :
          /\ req[p].pc = "is_favorited" /\ req'[p] # req[p]
             => LET user == req[p].user
                    flag == req'[p].body[1]
                IN  /\ Len(req'[p].body) = 1
                    /\ flag = (\E i \in 1..Len(Favorite) :
                                  /\ Favorite[i].user = user
                                  /\ Favorite[i].recipe = req[p].pk)
                    /\ user = None => ~flag
          /\ req[p].pc = "is_in_shopping_cart" /\ req'[p] # req[p]
             => LET user == req[p].user
                    flag == req'[p].body[2]
                IN  /\ req'[p].status = HTTP_200_OK
                    /\ req'[p].body[1] = req[p].body[1]
                    /\ flag = (\E i \in 1..Len(ShoppingCart) :
                                  /\ ShoppingCart[i].user = user
                                  /\ ShoppingCart[i].recipe = req[p].pk)
                    /\ user = None => ~flag
      ]_vars

\* the recipe is u1's favorite and not in u1's cart: it has been rendered to
\* u1 with the flags (true, false) and to another requester with both false
C24_Witness ==
    \E p, q \in Workers :
        /\ req[p].pc = "done" /\ req[p].view = "retrieve" /\ req[p].user = "u1"
        /\ req[p].body = <<TRUE, FALSE>>
        /\ req[q].pc = "done" /\ req[q].view = "retrieve" /\ req[q].user # "u1"
        /\ req[q].pk = req[p].pk
        /\ req[q].body = <<FALSE, FALSE>>
        /\ Exists(Favorite, "u1", req[p].pk)
        /\ ~Exists(ShoppingCart, "u1", req[p].pk)

\* C25: an Ingredient referenced by an IngredientInRecipe row is never
\* deleted, and an IngredientInRecipe row stays, with its ingredient, until
\* its recipe is updated (the clearing step of an update of that recipe).
C25_ReferencedIngredientKept ==
    [][\A i \in 1..Len(IngredientInRecipe) :
          LET row == IngredientInRecipe[i] IN
          /\ \E k \in 1..Len(Ingredient') : Ingredient'[k].id = row.ingredient
          /\ \/ \E j \in 1..Len(IngredientInRecipe') : IngredientInRecipe'[j] = row
             \/ \E p \in Workers :
                   /\ req[p].pc = "clear" /\ req[p].pk = row.recipe
                   /\ req'[p].pc # "clear"
      ]_vars
====
